---- MODULE Spec2Model ----
(***************************************************************************)
(* Model of the resumable batch uploader, src/upload_to_imgur_improved.py. *)
(*                                                                         *)
(* One behaviour is a sequence of runs of the script (each run is a new    *)
(* process) over one working directory.  What survives from run to run is  *)
(* the disk: the progress file, the report and the final JSON.  The        *)
(* directory content is an input of each run (files come and go between    *)
(* runs: the other scripts of the repository delete and convert images).   *)
(*                                                                         *)
(* Paths are naturals; their numeric order is the lexicographic order of   *)
(* the path strings.  A path p splits into dirname p \div DirWidth and     *)
(* basename p % DirWidth.                                                  *)
(***************************************************************************)
EXTENDS Naturals, Integers, Sequences, FiniteSets, TLC

\* ------------------------------------------------------------------ bounds
\* relative paths that can exist in the directory (full specification)
MaxFiles == 2
\* relative paths that can exist in the directory (batch specification)
MaxBatchFiles == 11
\* files whose upload the environment may make fail (an unusable payload,
\* or failing answers to its requests) in one behaviour
MaxFaults == 1
\* runs of the script in one behaviour
MaxRuns == 2
\* file names per directory
DirWidth == 2
\* records of a sequence given to the report (report specification)
MaxReportFiles == 3
\* the directory number of the working directory
RootPrefix == 50

\* entries that can exist under the root (discovery specification)
MaxTree == 7
\* calls of get_all_image_files on one directory
MaxCalls == 2

\* the small and the large pixel dimension, the small byte size of the files
\* given to compress_image_if_needed (compression specification)
SmallDim == 1
BigDim == 5000
SmallSize == 1000

\* images in the directory of compress_and_convert_to_webp, and runs of it
\* on that directory (converter specification)
MaxImages == 2
MaxConvRuns == 2

\* tokens of the text given to convert_imgur_to_png (rewriter specification)
MaxTextLen == 6

\* -------------------------------------------------------- program constants
\* len(CLIENT_IDS)
NumClientIds == 8
MAX_RETRIES == 3
\* Retry(total=3, ...)
RETRY_TOTAL == 3
\* the literal of "if (i + 1) % 10 == 0"
SAVE_EVERY == 10

\* MAX_FILE_SIZE = 10 * 1024 * 1024
MAX_FILE_SIZE == 10485760
MAX_DIMENSION == 2048
\* the literal 20 * 1024 * 1024 of the check of line 160
UPLOAD_LIMIT == 20971520

\* Python's None, as the value of imgur_url
None == "None"
\* result['data']['link'] of a successful upload
Link == "https://i.imgur.com/x.png"

\* os.path.abspath('.')
workspace_root == RootPrefix * DirWidth

\* Retry(status_forcelist=[429, 500, 502, 503, 504])
status_forcelist == {"429", "500", "502", "503", "504"}

\* ------------------------------------------------------------ path helpers
\* os.path.basename(image_path)
basename(p) == p % DirWidth

\* os.path.dirname(path)
dirname(p) == p \div DirWidth

\* os.path.relpath(image_path, workspace_root)
relpath(p, root) == p - root

Range(s) == {s[j] : j \in 1..Len(s)}

\* sorted(list(set(image_files)))
RECURSIVE SortedSeq(_)
SortedSeq(S) ==
    IF S = {} THEN <<>>
    ELSE LET m == CHOOSE x \in S : \A y \in S : x <= y
         IN  <<m>> \o SortedSeq(S \ {m})

\* [f for f in xs if keep(f)]
RECURSIVE FilterOut(_, _)
FilterOut(xs, excluded) ==
    IF xs = <<>> THEN <<>>
    ELSE IF Head(xs) \in excluded THEN FilterOut(Tail(xs), excluded)
         ELSE <<Head(xs)>> \o FilterOut(Tail(xs), excluded)

\* ---------------------------------------------------------------- records
\* the dict appended at lines 337-342
UploadRecord(p, url) ==
    [original_path |-> relpath(p, workspace_root),
     absolute_path |-> p,
     filename      |-> basename(p),
     imgur_url     |-> url]

\* json.dump of one value of imgur_url: null or a quoted string
JsonUrl(u) == IF u = None THEN <<"null">> ELSE <<"string", u>>

\* a null URL read back as a string
UnJsonUrl_mut(t) == IF t = <<"null">> THEN "null" ELSE t[2]

\* json.load of it
UnJsonUrl(t) == IF t = <<"null">> THEN None ELSE t[2]

\* json.dump(upload_results, f, ...): the text written to the file
json_dump(results) ==
    [j \in 1..Len(results) |->
        <<results[j].original_path, results[j].absolute_path,
          results[j].filename, JsonUrl(results[j].imgur_url)>>]

\* json.load(f)
json_load(text) ==
    [j \in 1..Len(text) |->
        [original_path |-> text[j][1],
         absolute_path |-> text[j][2],
         filename      |-> text[j][3],
         imgur_url     |-> UnJsonUrl(text[j][4])]]

NoFile == [exists |-> FALSE, text |-> <<>>]

\* where a text ends before its JSON value is complete
CutMark == <<"cut">>

\* the text of a json.dump that stopped after k records
CutText(text, k) == Append(SubSeq(text, 1, k), CutMark)

\* json.load(f) returns: the text is a complete JSON value
Parses(text) == \A j \in 1..Len(text) : text[j] # CutMark

\* the snapshot without its first record
save_progress_mut(results) ==
    [exists |-> TRUE, text |-> json_dump(SubSeq(results, 2, Len(results)))]

\* save_progress(upload_results, progress_file): open(..., 'w') and json.dump
save_progress(results) == [exists |-> TRUE, text |-> json_dump(results)]

\* the file never read back
load_progress_mut(file) == <<>>

\* load_progress(progress_file)
load_progress(file) ==
    IF file.exists
    THEN IF Parses(file.text) THEN json_load(file.text) ELSE <<>>
    ELSE <<>>

\* the set built from the relative paths instead
ProcessedFiles_mut(results) == {results[j].original_path : j \in 1..Len(results)}

\* {result['absolute_path'] for result in upload_results}
ProcessedFiles(results) == {results[j].absolute_path : j \in 1..Len(results)}

\* the filter left out
RemainingFiles_mut(files, processed) == files

\* [f for f in image_files if f not in processed_files]
RemainingFiles(files, processed) == FilterOut(files, processed)

\* the modulo left out
rotate_client_id_mut(idx) == idx + 1

\* (current_client_id_index + 1) % len(CLIENT_IDS)
rotate_client_id(idx) == (idx + 1) % NumClientIds

\* the bound off by one
CanRetry_mut(rc) == rc < MAX_RETRIES - 2

\* "if retry_count < MAX_RETRIES - 1" of the three retrying handlers
CanRetry(rc) == rc < MAX_RETRIES - 1

\* "if retry_count >= MAX_RETRIES" at the function's entry
RetriesExceeded(rc) == rc >= MAX_RETRIES

\* the test on i instead of i + 1
ShouldSave_mut(k) == k % SAVE_EVERY = 0

\* "if (i + 1) % 10 == 0"
ShouldSave(k) == (k + 1) % SAVE_EVERY = 0


\* ------------------------------------------------------- the upload's cases
\* what one HTTP request on the wire can meet: a 200 with one of four bodies,
\* a status of the forcelist, another status, or a transport failure
WireResponses ==
    {"200ok", "200fail", "200bad_json", "200no_fields",
     "429", "500", "403", "connfail", "timeout"}

\* the adapter of create_session re-sends the request (same headers) while
\* it has retries left: for a status of status_forcelist and for a
\* transport failure (POST is in allowed_methods)
AdapterRetries(w, n) ==
    /\ w \in status_forcelist \cup {"connfail", "timeout"}
    /\ n < RETRY_TOTAL

\* what session.post(...) then gives upload_image_to_imgur: a response
\* (lines 183-203 look at it) or an exception.  With its retries used up
\* the adapter raises: RetryError for a status of the forcelist
\* (raise_on_status is left at its default), and for a transport failure
\* ConnectionError (a connect timeout leaves it as ConnectTimeout, which is
\* a ConnectionError; a read timeout, retried as POST is allowed, leaves it
\* wrapped in a ConnectionError).
PostResult(w) ==
    CASE w = "200ok"        -> "ok"
      [] w = "200fail"      -> "fail"
      [] w = "200bad_json"  -> "JSONDecodeError"
      [] w = "200no_fields" -> "KeyError"
      [] w \in status_forcelist -> "RetryError"
      [] w \in {"connfail", "timeout"} -> "ConnectionError"
      [] OTHER              -> IF w = "429" THEN "status429" ELSE "http"

\* response.status_code of an answer, "none" of a transport failure
StatusOf(w) ==
    IF w \in {"200ok", "200fail", "200bad_json", "200no_fields"} THEN "200"
    ELSE IF w \in {"connfail", "timeout"} THEN "none"
    ELSE w

\* the classes caught by "except Exception" (KeyboardInterrupt is none)
ExceptionClasses ==
    {"ConnectionError", "Timeout", "RetryError", "JSONDecodeError",
     "KeyError", "OSError"}

\* the last clause catching the exceptions of requests only
ExceptClause_mut(e) ==
    CASE e = "ConnectionError" -> "conn"
      [] e = "Timeout"         -> "timeout"
      [] e \in {"RetryError", "JSONDecodeError"} -> "generic"
      [] OTHER                 -> "uncaught"

\* which except clause of upload_image_to_imgur takes an exception
ExceptClause(e) ==
    CASE e = "ConnectionError" -> "conn"
      [] e = "Timeout"         -> "timeout"
      [] e \in ExceptionClasses -> "generic"
      [] OTHER                 -> "uncaught"

\* the branch of lines 183-225 that takes the result r
Branch(r) ==
    CASE r = "ok"        -> "success"
      [] r = "fail"      -> "api_failure"
      [] r = "status429" -> "rate_limited"
      [] r = "http"      -> "http_error"
      [] OTHER ->
           CASE ExceptClause(r) = "conn"    -> "conn_error"
             [] ExceptClause(r) = "timeout" -> "timeout"
             [] ExceptClause(r) = "generic" -> "unexpected"
             [] OTHER                       -> "uncaught"

\* every failure retried while the bound allows
CallsAgain_mut(r, rc) == r # "ok" /\ CanRetry(rc)

\* whether the function calls itself again after the result r of its attempt
\* at retry_count rc: always after a 429 (line 195), within the bound after
\* another status, a ConnectionError or a Timeout (lines 199, 208, 217),
\* never after a 200 or another exception
CallsAgain(r, rc) ==
    CASE r = "status429" -> TRUE
      [] r = "http"      -> CanRetry(rc)
      [] ExceptClause(r) \in {"conn", "timeout"} -> CanRetry(rc)
      [] OTHER           -> FALSE

\* lines 183-225: what the function does with the result r of its attempt
\* at retry_count rc: rotate the client ID or not, call itself again or
\* return, and the value returned
Handle(r, rc) ==
    CASE r = "ok" ->
           [rotate |-> FALSE, again |-> FALSE, url |-> Link, raised |-> FALSE]
      [] r \in {"fail", "status429", "http"} ->
           [rotate |-> TRUE, again |-> CallsAgain(r, rc), url |-> None,
            raised |-> FALSE]
      [] OTHER ->
           IF ExceptClause(r) = "uncaught"
           THEN [rotate |-> FALSE, again |-> FALSE, url |-> None, raised |-> TRUE]
           ELSE [rotate |-> TRUE, again |-> CallsAgain(r, rc), url |-> None,
                 raised |-> FALSE]

\* compress_image_if_needed and the size check of lines 157-162: the payload
\* is accepted, is above 20 MB, or the fallback read of lines 129-130 raises
CompressOutcomes == {"accepted", "oversized", "OSError"}

\* -------------------------------------------------------------- the state
VARIABLES
    dirs,        \* environment: the directory contents a run may find
    faults,      \* environment: files it may still make fail
    run,         \* runs started so far
    progress_file,        \* the disk: upload_progress.json
    md_file, json_file,   \* imgur_uploads.md and .json as this run wrote them
                          \* (the script never reads them)
    pc,          \* where main is; "idle" between runs
    image_files, upload_results, processed_files, remaining_files,
    start_index, i, image_path, imgur_url,  \* main's locals
    current_client_id_index,                 \* the module's global
    payload,     \* what compress_image_if_needed makes of image_path
    retry_count, header_cred, adapter_retries,
    delayed,     \* the request in flight was sent right after the random delay
    calls,       \* history: the invocations of upload_image_to_imgur for image_path
    wire_prev,   \* history: the last answered request for image_path
    fs_log,      \* history: what this run wrote to the disk, in order
    run_end,     \* history: how the last run ended
    prev         \* history: the last run before this one that found images

\* the other scripts and functions, each run or called on its own
VARIABLES
    tree,        \* discovery: the entries under the root
    platform,    \* discovery: the file system's treatment of case
    listing,     \* discovery: what the calls of get_all_image_files returned
    img,         \* compression: the file given to compress_image_if_needed
    result,      \* compression: what it returned
    cv_pc,       \* converter: where main of compress_and_convert_to_webp is
    cv_runs,     \* converter: runs of the script started so far
    first_images,  \* converter, history: the images before the first run
    originals,   \* converter: the images in the source directory
    backup_dir,  \* converter: whether backup_original_images exists
    backups,     \* converter: the image files below backup_original_images
    webps,       \* converter: the images that have a .webp beside them
    cv_files,    \* converter: image_files
    cv_i,        \* converter: the loop's position
    converted_count, failed_count,
    rw_pc,       \* rewriter: where convert_imgur_to_png is
    content,     \* rewriter: the text of the file of convert_imgur_to_png
    original_content,  \* rewriter, history: the text before the call
    written      \* rewriter, history: the writes to the file

uploader == <<dirs, faults, run, progress_file, md_file, json_file, pc,
              image_files, upload_results, processed_files, remaining_files,
              start_index, i, image_path, imgur_url, current_client_id_index,
              payload, retry_count, header_cred, adapter_retries, delayed,
              calls, wire_prev, fs_log, run_end, prev>>

discovery == <<tree, platform, listing>>
compression == <<img, result>>
converter == <<cv_pc, cv_runs, first_images, originals, backup_dir, backups, webps,
               cv_files, cv_i, converted_count, failed_count>>
rewriter == <<rw_pc, content, original_content, written>>

scripts == <<discovery, compression, converter, rewriter>>

vars == <<uploader, scripts>>

\* a script that is not run
DiscoveryIdle == tree = {} /\ platform = "posix" /\ listing = <<>>
\* no file, and nothing returned yet
NoImage == [file_size |-> 0, width |-> 0, height |-> 0, readable |-> FALSE,
            decodes |-> FALSE]
NoResult == [data |-> "none", size |-> 0, width |-> 0, height |-> 0,
             verdict |-> "none"]

CompressionIdle == img = NoImage /\ result = NoResult
ConverterIdle ==
    /\ cv_pc = "idle"
    /\ cv_runs = 0
    /\ first_images = {}
    /\ originals = {}
    /\ backup_dir = FALSE
    /\ backups = {}
    /\ webps = {}
    /\ cv_files = <<>>
    /\ cv_i = 0
    /\ converted_count = 0
    /\ failed_count = 0
RewriterIdle ==
    /\ rw_pc = "idle"
    /\ content = <<>>
    /\ original_content = <<>>
    /\ written = 0

disk == <<progress_file, md_file, json_file>>
env == <<dirs, run>>
locals == <<image_files, upload_results, processed_files, remaining_files,
            start_index>>
upload == <<payload, retry_count, header_cred, adapter_retries, delayed>>

AbsPaths(n) == {workspace_root + r : r \in 0..(n - 1)}

NoWire == [status |-> "none", cred |-> 0]
NoPrev == [end |-> "none", dir |-> <<>>, remaining |-> <<>>, start |-> 0,
           done |-> 0, results |-> <<>>, failed |-> {}]

\* the state of the process when the script starts: module level, line 35
ProcessStart ==
    /\ pc = "idle"
    /\ image_files = <<>>
    /\ upload_results = <<>>
    /\ processed_files = {}
    /\ remaining_files = <<>>
    /\ start_index = 0
    /\ i = 0
    /\ image_path = 0
    /\ imgur_url = None
    /\ current_client_id_index = 0
    /\ payload = "accepted"
    /\ retry_count = 0
    /\ header_cred = 0
    /\ adapter_retries = 0
    /\ delayed = FALSE
    /\ calls = <<>>
    /\ wire_prev = NoWire
    /\ fs_log = <<>>
    /\ run_end = "none"
    /\ prev = NoPrev

Init ==
    /\ dirs = SUBSET AbsPaths(MaxFiles)
    /\ faults = MaxFaults
    /\ run = 0
    /\ progress_file = NoFile
    /\ md_file = NoFile
    /\ json_file = NoFile
    /\ ProcessStart
    /\ DiscoveryIdle /\ CompressionIdle /\ ConverterIdle /\ RewriterIdle

\* files the environment may make fail in the batch specification: one for
\* every full batch of SAVE_EVERY files of the directory
BatchFaults == MaxBatchFiles \div SAVE_EVERY

\* the batch specification: a directory large enough for the save of every
\* tenth upload, present or empty
InitBatch ==
    /\ dirs = {{}, AbsPaths(MaxBatchFiles)}
    /\ faults = BatchFaults
    /\ run = 0
    /\ progress_file = NoFile
    /\ md_file = NoFile
    /\ json_file = NoFile
    /\ ProcessStart
    /\ DiscoveryIdle /\ CompressionIdle /\ ConverterIdle /\ RewriterIdle

\* no two records of the same file
NoDuplicatePaths(results) ==
    \A j, k \in 1..Len(results) :
        results[j].absolute_path = results[k].absolute_path => j = k

\* the paths of the records with a null URL
FailedPaths(results) ==
    {results[j].absolute_path : j \in {k \in 1..Len(results) : results[k].imgur_url = None}}

\* what is remembered of a run when it ends: of an interrupted run what it
\* found and did, of a completed run the files it reported as failed
Summary(how, results) ==
    IF how = "interrupted"
    THEN [end |-> how, dir |-> image_files, remaining |-> remaining_files,
          start |-> start_index, done |-> Len(results) - start_index,
          results |-> results, failed |-> FailedPaths(results)]
    ELSE [end |-> how, dir |-> <<>>, remaining |-> <<>>, start |-> 0,
          done |-> 0, results |-> <<>>, failed |-> FailedPaths(results)]


\* --------------------------------------------------------------- the report
\* sum(1 for result in upload_results if result['imgur_url'] is None)
RECURSIVE CountNone(_)
CountNone(results) ==
    IF results = <<>> THEN 0
    ELSE (IF Head(results).imgur_url = None THEN 1 ELSE 0) + CountNone(Tail(results))

\* [result for result in upload_results if <dirname(original_path) = d>]
RECURSIVE InDir(_, _)
InDir(results, d) ==
    IF results = <<>> THEN <<>>
    ELSE IF dirname(Head(results).original_path) = d
         THEN <<Head(results)>> \o InDir(Tail(results), d)
         ELSE InDir(Tail(results), d)

\* one step of sorted(..., key=filename): r goes after the entries whose
\* filename is not larger (the sort is stable)
RECURSIVE InsertByFilename(_, _)
InsertByFilename(sorted, r) ==
    IF sorted = <<>> THEN <<r>>
    ELSE IF Head(sorted).filename <= r.filename
         THEN <<Head(sorted)>> \o InsertByFilename(Tail(sorted), r)
         ELSE <<r>> \o sorted

\* sorted(results_by_dir[directory], key=lambda x: x['filename'])
RECURSIVE SortByFilename(_)
SortByFilename(results) ==
    IF results = <<>> THEN <<>>
    ELSE InsertByFilename(SortByFilename(SubSeq(results, 1, Len(results) - 1)),
                          results[Len(results)])

\* the empty string, a link as good as any to json and to "is None"
EmptyLink == ""

\* the truth value Python gives a value of imgur_url in "if result['imgur_url']"
Truthy(u) == u # None /\ u # EmptyLink

\* one entry of the listing, lines 274-281: with the link when imgur_url is
\* truthy, with the failure mark otherwise
Entry(r) ==
    [filename |-> r.filename, original_path |-> r.original_path,
     imgur_url |-> r.imgur_url, failed_mark |-> ~Truthy(r.imgur_url)]

\* generate_markdown_file(upload_results, output_path): the document written
generate_markdown_file(results) ==
    LET ds == {dirname(results[j].original_path) : j \in 1..Len(results)}
        order == SortedSeq(ds)
        failed_uploads == SelectSeq(results, LAMBDA r : r.imgur_url = None)
    IN  [exists |-> TRUE,
         total |-> Len(results),
         successful |-> Len(results) - CountNone(results),
         failed |-> CountNone(results),
         sections |-> [k \in 1..Len(order) |->
                         [directory |-> order[k],
                          entries |-> LET es == SortByFilename(InDir(results, order[k]))
                                      IN  [j \in 1..Len(es) |-> Entry(es[j])]]],
         failed_section |-> [j \in 1..Len(failed_uploads) |->
                               failed_uploads[j].original_path]]

\* -------------------------------------------------------------- the actions
\* the call has returned: its frames and what is remembered of them are gone
FileDone ==
    /\ payload' = "accepted"
    /\ retry_count' = 0
    /\ header_cred' = 0
    /\ adapter_retries' = 0
    /\ delayed' = FALSE
    /\ calls' = <<>>
    /\ wire_prev' = NoWire

\* main returns and the process ends: its memory is gone, the disk stays
ProcessExit(how) ==
    /\ run_end' = how
    /\ prev' = Summary(how, upload_results)
    /\ pc' = "idle"
    /\ image_files' = <<>>
    /\ upload_results' = <<>>
    /\ processed_files' = {}
    /\ remaining_files' = <<>>
    /\ start_index' = 0
    /\ i' = 0
    /\ image_path' = 0
    /\ imgur_url' = None
    /\ current_client_id_index' = 0
    /\ FileDone

\* main, lines 295-325, with images found: discovery, load_progress, the
\* filter of the files already processed
Main_Start ==
    /\ pc = "idle"
    /\ run < MaxRuns
    /\ \E F \in dirs :
         /\ F # {}
         /\ image_files' = SortedSeq(F)
    /\ run' = run + 1
    /\ upload_results' = load_progress(progress_file)
    /\ processed_files' = ProcessedFiles(upload_results')
    /\ remaining_files' = RemainingFiles(image_files', processed_files')
    /\ start_index' = Len(upload_results')
    /\ i' = 0
    /\ image_path' = 0
    /\ imgur_url' = None
    /\ current_client_id_index' = 0
    /\ FileDone
    /\ fs_log' = <<>>
    /\ md_file' = NoFile
    /\ json_file' = NoFile
    /\ pc' = "loop"
    /\ UNCHANGED <<scripts, dirs, faults, progress_file, run_end, prev>>

\* main, lines 295-304, with no image found: "No image files found!", return
Main_NoImages ==
    /\ pc = "idle"
    /\ run < MaxRuns
    /\ {} \in dirs
    /\ run' = run + 1
    /\ fs_log' = <<>>
    /\ run_end' = "empty"
    /\ md_file' = NoFile
    /\ json_file' = NoFile
    /\ UNCHANGED <<scripts, dirs, faults, progress_file, prev, pc, locals, i, image_path, imgur_url,
                   current_client_id_index, upload, calls, wire_prev>>

\* lines 328-335: the next file of remaining_files, and the call
\* upload_image_to_imgur(session, image_path) with retry_count = 0
Loop_Next ==
    /\ pc = "loop"
    /\ i < Len(remaining_files)
    /\ image_path' = remaining_files[i + 1]
    /\ \E c \in CompressOutcomes :
         /\ payload' = c
         /\ IF c = "accepted" THEN UNCHANGED faults
            ELSE faults > 0 /\ faults' = faults - 1
    /\ retry_count' = 0
    /\ calls' = <<>>
    /\ wire_prev' = NoWire
    /\ pc' = "enter"
    /\ UNCHANGED <<scripts, env, disk, locals, i, imgur_url, current_client_id_index,
                   header_cred, adapter_retries, delayed, fs_log, run_end,
                   prev>>

\* line 328, the list exhausted: the loop and its try end
Loop_Done ==
    /\ pc = "loop"
    /\ i >= Len(remaining_files)
    /\ pc' = "report"
    /\ UNCHANGED <<scripts, env, faults, disk, locals, i, image_path, imgur_url,
                   current_client_id_index, upload, calls, wire_prev,
                   fs_log, run_end, prev>>

\* the deeper invocation called with retry_count instead of retry_count + 1
Leave_mut(h) ==
    /\ current_client_id_index' =
         IF h.rotate THEN rotate_client_id(current_client_id_index)
         ELSE current_client_id_index
    /\ IF h.raised
       THEN /\ pc' = "crashed"
            /\ UNCHANGED <<retry_count, imgur_url, run_end, prev>>
       ELSE IF h.again
       THEN /\ pc' = "enter"
            /\ retry_count' = retry_count
            /\ UNCHANGED <<imgur_url, run_end, prev>>
       ELSE /\ pc' = "append"
            /\ imgur_url' = h.url
            /\ UNCHANGED <<retry_count, run_end, prev>>

\* what an invocation that ends here leaves: the client ID rotated or not,
\* then a deeper invocation, the value returned to main, or a traceback
Leave(h) ==
    /\ current_client_id_index' =
         IF h.rotate THEN rotate_client_id(current_client_id_index)
         ELSE current_client_id_index
    /\ IF h.raised
       THEN /\ pc' = "crashed"
            /\ UNCHANGED <<retry_count, imgur_url, run_end, prev>>
       ELSE IF h.again
       THEN /\ pc' = "enter"
            /\ retry_count' = retry_count + 1
            /\ UNCHANGED <<imgur_url, run_end, prev>>
       ELSE /\ pc' = "append"
            /\ imgur_url' = h.url
            /\ UNCHANGED <<retry_count, run_end, prev>>

\* upload_image_to_imgur, lines 151-175: the bound on retry_count, the
\* compression, the 20 MB check, the headers with the current client ID
Upload_Enter ==
    /\ pc = "enter"
    /\ IF RetriesExceeded(retry_count)
       THEN /\ calls' = Append(calls, [cred |-> current_client_id_index,
                                       posted |-> FALSE, outcome |-> "max_retries"])
            /\ Leave([rotate |-> FALSE, again |-> FALSE, url |-> None, raised |-> FALSE])
            /\ UNCHANGED header_cred
       ELSE IF payload = "accepted"
       THEN /\ header_cred' = current_client_id_index
            /\ pc' = "post"
            /\ UNCHANGED <<calls, current_client_id_index, retry_count,
                           imgur_url, run_end, prev>>
       ELSE /\ calls' = Append(calls, [cred |-> current_client_id_index,
                                       posted |-> FALSE,
                                       outcome |-> IF payload = "oversized"
                                                   THEN "oversized"
                                                   ELSE Branch(payload)])
            /\ IF payload = "oversized"
               THEN Leave([rotate |-> FALSE, again |-> FALSE, url |-> None,
                           raised |-> FALSE])
               ELSE Leave(Handle(payload, retry_count))
            /\ UNCHANGED header_cred
    /\ UNCHANGED <<scripts, env, faults, disk, locals, i, image_path, payload,
                   adapter_retries, delayed, wire_prev, fs_log>>

\* lines 178-181: time.sleep(random.uniform(MIN_DELAY, MAX_DELAY)), then
\* session.post sends the request
Upload_Post ==
    /\ pc = "post"
    /\ delayed' = TRUE
    /\ adapter_retries' = 0
    /\ pc' = "wire"
    /\ UNCHANGED <<scripts, env, faults, disk, locals, i, image_path, imgur_url,
                   current_client_id_index, payload, retry_count, header_cred,
                   calls, wire_prev, fs_log, run_end, prev>>

\* the first failing answer to a request for image_path makes it one of
\* the files the environment lets fail
Charge(w) ==
    IF w # "200ok" /\ wire_prev = NoWire
    THEN faults > 0 /\ faults' = faults - 1
    ELSE UNCHANGED faults

\* inside session.post: the adapter of create_session sends the same
\* request again, after its own backoff (backoff_factor=1: none before the
\* first retry) and not the delay of lines 178-179
Adapter_Retry ==
    /\ pc = "wire"
    /\ \E w \in WireResponses :
         /\ AdapterRetries(w, adapter_retries)
         /\ Charge(w)
         /\ wire_prev' = [status |-> StatusOf(w), cred |-> header_cred]
    /\ adapter_retries' = adapter_retries + 1
    /\ delayed' = FALSE
    /\ UNCHANGED <<scripts, env, disk, locals, i, image_path, imgur_url, pc,
                   current_client_id_index, payload, retry_count, header_cred,
                   calls, fs_log, run_end, prev>>

\* session.post returns or raises, and lines 183-225 deal with it
Upload_Response ==
    /\ pc = "wire"
    /\ \E w \in WireResponses :
         /\ ~AdapterRetries(w, adapter_retries)
         /\ Charge(w)
         /\ wire_prev' = [status |-> StatusOf(w), cred |-> header_cred]
         /\ calls' = Append(calls, [cred |-> header_cred, posted |-> TRUE,
                                    outcome |-> Branch(PostResult(w))])
         /\ Leave(Handle(PostResult(w), retry_count))
    /\ delayed' = FALSE
    /\ UNCHANGED <<scripts, env, disk, locals, i, image_path, payload, header_cred,
                   adapter_retries, fs_log>>

\* lines 337-342: the record of the file
AppendRecord ==
    /\ pc = "append"
    /\ upload_results' = Append(upload_results, UploadRecord(image_path, imgur_url))
    /\ pc' = "batch"
    /\ UNCHANGED <<scripts, env, faults, disk, image_files, processed_files,
                   remaining_files, start_index, i, image_path, imgur_url,
                   current_client_id_index, upload, calls, wire_prev, fs_log,
                   run_end, prev>>

\* lines 349-352, and the loop's step to the next i
SaveEvery10 ==
    /\ pc = "batch"
    /\ IF ShouldSave(i)
       THEN /\ progress_file' = save_progress(upload_results)
            /\ fs_log' = Append(fs_log, "save")
       ELSE UNCHANGED <<progress_file, fs_log>>
    /\ i' = i + 1
    /\ pc' = "loop"
    /\ FileDone
    /\ UNCHANGED <<scripts, env, faults, md_file, json_file, locals, image_path,
                   imgur_url, current_client_id_index, run_end, prev>>

\* where main is inside the try of lines 327-352
InTry == {"loop", "enter", "post", "wire", "append", "batch"}

\* the handler without its save_progress
KeyboardInterrupt_mut ==
    /\ pc \in InTry
    /\ fs_log' = fs_log
    /\ ProcessExit("interrupted")
    /\ UNCHANGED <<scripts, env, faults, disk>>

\* lines 354-357: Ctrl-C inside the try
KeyboardInterrupt ==
    /\ pc \in InTry
    /\ progress_file' = save_progress(upload_results)
    /\ fs_log' = Append(fs_log, "save")
    /\ ProcessExit("interrupted")
    /\ UNCHANGED <<scripts, env, faults, md_file, json_file>>

\* lines 359-362
GenerateMarkdown ==
    /\ pc = "report"
    /\ md_file' = generate_markdown_file(upload_results)
    /\ fs_log' = Append(fs_log, "md")
    /\ pc' = "json"
    /\ UNCHANGED <<scripts, env, faults, progress_file, json_file, locals, i,
                   image_path, imgur_url, current_client_id_index, upload,
                   calls, wire_prev, run_end, prev>>

\* lines 364-367
WriteJson ==
    /\ pc = "json"
    /\ json_file' = [exists |-> TRUE, text |-> json_dump(upload_results)]
    /\ fs_log' = Append(fs_log, "json")
    /\ pc' = "cleanup"
    /\ UNCHANGED <<scripts, env, faults, progress_file, md_file, locals, i,
                   image_path, imgur_url, current_client_id_index, upload,
                   calls, wire_prev, run_end, prev>>

\* the progress file left behind
CleanUp_mut ==
    /\ pc = "cleanup"
    /\ ProcessExit("completed")
    /\ UNCHANGED <<scripts, env, faults, disk, fs_log>>

\* lines 369-383: the progress file removed, the summary, main returns
CleanUp ==
    /\ pc = "cleanup"
    /\ IF progress_file.exists
       THEN /\ progress_file' = NoFile
            /\ fs_log' = Append(fs_log, "rm")
       ELSE UNCHANGED <<progress_file, fs_log>>
    /\ ProcessExit("completed")
    /\ UNCHANGED <<scripts, env, faults, md_file, json_file>>

Next ==
    \/ Main_Start
    \/ Main_NoImages
    \/ Loop_Next
    \/ Loop_Done
    \/ Upload_Enter
    \/ Upload_Post
    \/ Adapter_Retry
    \/ Upload_Response
    \/ AppendRecord
    \/ SaveEvery10
    \/ KeyboardInterrupt
    \/ GenerateMarkdown
    \/ WriteJson
    \/ CleanUp

Spec == Init /\ [][Next]_vars

\* ---------------------------------------------- the resume specification
\* the uploader with a process that is ended while the handler's
\* save_progress of line 356 writes: open(progress_file, 'w') has emptied
\* the file and json.dump has written k of the records
Interrupt_SaveCut ==
    /\ pc \in InTry
    /\ \E k \in 0..Len(upload_results) :
         progress_file' =
            [exists |-> TRUE, text |-> CutText(json_dump(upload_results), k)]
    /\ fs_log' = Append(fs_log, "cut")
    /\ ProcessExit("killed")
    /\ UNCHANGED <<scripts, env, faults, md_file, json_file>>

\* a directory that is empty or holds all its files at every run
InitResume ==
    /\ dirs = {{}, AbsPaths(MaxFiles)}
    /\ faults = MaxFaults
    /\ run = 0
    /\ progress_file = NoFile
    /\ md_file = NoFile
    /\ json_file = NoFile
    /\ ProcessStart
    /\ DiscoveryIdle /\ CompressionIdle /\ ConverterIdle /\ RewriterIdle

NextResume == Next \/ Interrupt_SaveCut

SpecResume == InitResume /\ [][NextResume]_vars

\* ---------------------------------------------- the report specification
\* the values result['data']['link'] and a progress log can give imgur_url
UrlValues == {None, EmptyLink, Link}

\* the sequences of at most n records of distinct files
RecordSeqs(n) ==
    LET Records == {UploadRecord(q, u) : q \in AbsPaths(n), u \in UrlValues}
    IN  {rs \in UNION {[1..k -> Records] : k \in 0..n} : NoDuplicatePaths(rs)}

\* main at line 359 of a run resumed from a progress log that holds a
\* record of every file found: nothing was left to upload
InitReport ==
    /\ upload_results \in RecordSeqs(MaxReportFiles)
    /\ dirs = {ProcessedFiles(upload_results)}
    /\ faults = 0
    /\ run = 1
    /\ progress_file = save_progress(upload_results)
    /\ md_file = NoFile
    /\ json_file = NoFile
    /\ pc = "report"
    /\ image_files = SortedSeq(ProcessedFiles(upload_results))
    /\ processed_files = ProcessedFiles(upload_results)
    /\ remaining_files = <<>>
    /\ start_index = Len(upload_results)
    /\ i = 0
    /\ image_path = 0
    /\ imgur_url = None
    /\ current_client_id_index = 0
    /\ payload = "accepted"
    /\ retry_count = 0
    /\ header_cred = 0
    /\ adapter_retries = 0
    /\ delayed = FALSE
    /\ calls = <<>>
    /\ wire_prev = NoWire
    /\ fs_log = <<>>
    /\ run_end = "interrupted"
    /\ prev = NoPrev
    /\ DiscoveryIdle /\ CompressionIdle /\ ConverterIdle /\ RewriterIdle

NextReport ==
    \/ GenerateMarkdown
    \/ WriteJson
    \/ CleanUp

SpecReport == InitReport /\ [][NextReport]_vars

SpecBatch == InitBatch /\ [][Next]_vars

TypeOK ==
    /\ pc \in InTry \cup {"idle", "report", "json", "cleanup", "crashed"}
    /\ payload \in CompressOutcomes
    /\ run \in 0..MaxRuns
    /\ current_client_id_index \in 0..(NumClientIds - 1)
    /\ retry_count \in 0..MAX_RETRIES
    /\ adapter_retries \in 0..RETRY_TOTAL
    /\ delayed \in BOOLEAN
    /\ faults \in 0..(MaxFaults + BatchFaults)


\* ------------------------------------------- the discovery specification
\* get_all_image_files on a directory in detail.  An entry is the position
\* of its path in the order of the path strings (".", then upper case, then
\* lower case), so that sorted() is the numeric order.
Names ==
    <<[name |-> ".e.png", suffix |-> "png",  hidden |-> TRUE,  isdir |-> FALSE],
      [name |-> "a.jpg",  suffix |-> "jpg",  hidden |-> FALSE, isdir |-> FALSE],
      [name |-> "b.JPG",  suffix |-> "JPG",  hidden |-> FALSE, isdir |-> FALSE],
      [name |-> "c.Jpg",  suffix |-> "Jpg",  hidden |-> FALSE, isdir |-> FALSE],
      [name |-> "d.webp", suffix |-> "webp", hidden |-> FALSE, isdir |-> FALSE],
      [name |-> "f.png",  suffix |-> "png",  hidden |-> FALSE, isdir |-> TRUE],
      [name |-> "g.txt",  suffix |-> "txt",  hidden |-> FALSE, isdir |-> FALSE],
      [name |-> "h.GIF",  suffix |-> "GIF",  hidden |-> FALSE, isdir |-> FALSE],
      [name |-> "i.svg",  suffix |-> "svg",  hidden |-> FALSE, isdir |-> FALSE]>>

\* image_extensions of line 134, without the "*."
image_extensions == <<"jpg", "jpeg", "png", "gif", "bmp", "tiff", "svg">>

\* str.lower() and str.upper() on the suffixes in use
lower(x) ==
    CASE x \in {"jpg", "JPG", "Jpg"} -> "jpg"
      [] x \in {"gif", "GIF"}        -> "gif"
      [] x \in {"png", "PNG"}        -> "png"
      [] x \in {"svg", "SVG"}        -> "svg"
      [] x \in {"jpeg", "JPEG"}      -> "jpeg"
      [] x \in {"bmp", "BMP"}        -> "bmp"
      [] x \in {"tiff", "TIFF"}      -> "tiff"
      [] OTHER                       -> x

upper(x) ==
    CASE lower(x) = "jpg"  -> "JPG"
      [] lower(x) = "gif"  -> "GIF"
      [] lower(x) = "png"  -> "PNG"
      [] lower(x) = "svg"  -> "SVG"
      [] lower(x) = "jpeg" -> "JPEG"
      [] lower(x) = "bmp"  -> "BMP"
      [] lower(x) = "tiff" -> "TIFF"
      [] OTHER             -> x

\* fnmatch of a name against "*." + ext: both sides through os.path.normcase,
\* the identity on posix and the lower case on Windows
fnmatch(suffix, ext, os) ==
    IF os = "windows" THEN lower(suffix) = lower(ext) ELSE suffix = ext

Reverse(xs) == [j \in 1..Len(xs) |-> xs[Len(xs) + 1 - j]]

\* glob.glob(os.path.join(root_path, '**', "*." + ext), recursive=True): the
\* entries, files and directories, whose name matches; "*" and "**" match
\* no name that starts with a dot; the order is the one of os.scandir
glob(entries, ext, os, order) ==
    LET matches == {e \in entries : /\ ~Names[e].hidden
                                    /\ fnmatch(Names[e].suffix, ext, os)}
    IN  IF order = "asc" THEN SortedSeq(matches)
        ELSE Reverse(SortedSeq(matches))

\* lines 137-145: image_files after the first k extensions
RECURSIVE Extended(_, _, _, _)
Extended(k, entries, os, order) ==
    IF k = 0 THEN <<>>
    ELSE Extended(k - 1, entries, os, order)
         \o glob(entries, image_extensions[k], os, order)
         \o glob(entries, upper(image_extensions[k]), os, order)

\* get_all_image_files(root_path)
get_all_image_files(entries, os, order) ==
    SortedSeq(Range(Extended(Len(image_extensions), entries, os, order)))

InitDiscovery ==
    /\ tree \in SUBSET (1..MaxTree)
    /\ platform \in {"posix", "windows"}
    /\ listing = <<>>
    /\ dirs = {} /\ faults = 0 /\ run = 0
    /\ progress_file = NoFile /\ md_file = NoFile /\ json_file = NoFile
    /\ ProcessStart
    /\ CompressionIdle /\ ConverterIdle /\ RewriterIdle

\* one call on the directory as it is
Discover ==
    /\ Len(listing) < MaxCalls
    /\ \E order \in {"asc", "desc"} :
         listing' = Append(listing, get_all_image_files(tree, platform, order))
    /\ UNCHANGED <<tree, platform, uploader, compression, converter, rewriter>>

NextDiscovery == Discover

SpecDiscovery == InitDiscovery /\ [][NextDiscovery]_vars

\* ----------------------------------------- the compression specification
\* compress_image_if_needed on one file, then the check of line 160.  A file
\* is its byte size, its pixel dimensions, whether it can be read, and
\* whether PIL decodes it (Image.open and the processing of lines 82-117
\* raise for a file that is no raster image, such as an SVG, is truncated,
\* or is a decompression bomb).
Dimensions == {SmallDim, MAX_DIMENSION, MAX_DIMENSION + 1, BigDim}
FileSizes == {SmallSize, MAX_FILE_SIZE, MAX_FILE_SIZE + 1, UPLOAD_LIMIT + 1}

\* the sizes the JPEG encoder may give compressed_data
CompressedSizes == {SmallSize, MAX_FILE_SIZE + 1}

Max(a, b) == IF a >= b THEN a ELSE b

\* the test with >= for the file size
NeedsCompression_mut(file_size, max_dim) ==
    file_size >= MAX_FILE_SIZE \/ max_dim > MAX_DIMENSION

\* needs_compression of line 87
NeedsCompression(file_size, max_dim) ==
    file_size > MAX_FILE_SIZE \/ max_dim > MAX_DIMENSION

\* int(side * (MAX_DIMENSION / max_dim)) of lines 98-100: the floor of the
\* quotient (for the sides in use; the float product can fall one short of
\* it, never go above)
Scaled(side, max_dim) == (side * MAX_DIMENSION) \div max_dim

\* the fallback of lines 126-130: the file as it is
Fallback(f) ==
    [data |-> "original", size |-> f.file_size, width |-> f.width,
     height |-> f.height, verdict |-> "unchecked"]

\* the open of line 129 raises in its turn: nothing is returned
Raised == [data |-> "raised", size |-> 0, width |-> 0, height |-> 0,
           verdict |-> "none"]

\* compress_image_if_needed(image_path) for the file f, the encoder giving
\* csize bytes: what is returned, or Raised
compress_image_if_needed(f, csize) ==
    LET max_dim == Max(f.width, f.height)
        resized == max_dim > MAX_DIMENSION
        new_width == IF resized THEN Scaled(f.width, max_dim) ELSE f.width
        new_height == IF resized THEN Scaled(f.height, max_dim) ELSE f.height
    IN  IF ~f.readable THEN Raised
        ELSE IF ~f.decodes THEN Fallback(f)
        ELSE IF ~NeedsCompression(f.file_size, max_dim) THEN Fallback(f)
        \* Image.resize and the JPEG encoder raise for an empty image
        ELSE IF new_width < 1 \/ new_height < 1 THEN Fallback(f)
        ELSE [data |-> "jpeg", size |-> csize, width |-> new_width,
              height |-> new_height, verdict |-> "unchecked"]

InitCompression ==
    /\ img \in [file_size : FileSizes, width : Dimensions, height : Dimensions,
                 readable : BOOLEAN, decodes : BOOLEAN]
    /\ result = NoResult
    /\ dirs = {} /\ faults = 0 /\ run = 0
    /\ progress_file = NoFile /\ md_file = NoFile /\ json_file = NoFile
    /\ ProcessStart
    /\ DiscoveryIdle /\ ConverterIdle /\ RewriterIdle

\* line 157: image_data_bytes, final_size = compress_image_if_needed(...)
Compress ==
    /\ result = NoResult
    /\ \E csize \in CompressedSizes :
         result' = compress_image_if_needed(img, csize)
    /\ UNCHANGED <<img, uploader, discovery, converter, rewriter>>

\* lines 160-162: final_size against the 20 MB of the host
CheckSize ==
    /\ result.verdict = "unchecked"
    /\ result' = [result EXCEPT !.verdict =
                     IF result.size > UPLOAD_LIMIT THEN "oversized"
                     ELSE "accepted"]
    /\ UNCHANGED <<img, uploader, discovery, converter, rewriter>>

NextCompression == Compress \/ CheckSize

SpecCompression == InitCompression /\ [][NextCompression]_vars

\* ------------------------------------------- the converter specification
\* main of rituais/compress_and_convert_to_webp.py, run on one directory
\* whose images all lie in the directory itself.  An image file is
\* [id, depth]: image id at depth 0 is the original, at depth d > 0 the file
\* of that name below d nested backup_original_images folders.
Original(k) == [id |-> k, depth |-> 0]

\* the file of the path p exists
Exists(p) == IF p.depth = 0 THEN p.id \in originals ELSE p \in backups

\* the image files of one directory level, in name order
FilesAt(d) ==
    LET ids == IF d = 0 THEN originals
               ELSE {b.id : b \in {x \in backups : x.depth = d}}
        sorted == SortedSeq(ids)
    IN  [j \in 1..Len(sorted) |-> [id |-> sorted[j], depth |-> d]]

\* os.walk(directory), top down: a directory's files, then its subfolders
RECURSIVE Walk(_)
Walk(d) == IF d > MaxConvRuns THEN <<>> ELSE FilesAt(d) \o Walk(d + 1)

\* find_images(rituais_dir): every file with an image suffix below the
\* directory, the backup folder included
find_images == Walk(0)

\* backup_image: the copy lies one backup_original_images deeper
backup_path(p) == [id |-> p.id, depth |-> p.depth + 1]

\* shutil.rmtree(backup_dir): everything below the backup folder goes
rmtree(files) == {f \in files : f.depth = 0}

InitConverter ==
    /\ first_images \in SUBSET (1..MaxImages)
    /\ originals = first_images
    /\ cv_pc = "start"
    /\ cv_runs = 0
    /\ backup_dir = FALSE
    /\ backups = {}
    /\ webps = {}
    /\ cv_files = <<>>
    /\ cv_i = 0
    /\ converted_count = 0
    /\ failed_count = 0
    /\ dirs = {} /\ faults = 0 /\ run = 0
    /\ progress_file = NoFile /\ md_file = NoFile /\ json_file = NoFile
    /\ ProcessStart
    /\ DiscoveryIdle /\ CompressionIdle /\ RewriterIdle

\* the end of one pass of the loop of line 118: the next file, or the summary
NextImage ==
    /\ cv_i' = cv_i + 1
    /\ cv_pc' = IF cv_i + 1 > Len(cv_files) THEN "done" ELSE "backup"

\* main, lines 93-102: the script is started and looks for images
Cv_FindImages ==
    /\ cv_pc \in {"start", "done", "returned"}
    /\ cv_runs < MaxConvRuns
    /\ cv_runs' = cv_runs + 1
    /\ cv_files' = find_images
    /\ cv_i' = 0
    /\ converted_count' = 0
    /\ failed_count' = 0
    /\ cv_pc' = IF find_images = <<>> THEN "returned" ELSE "backup_folder"
    /\ UNCHANGED <<first_images, originals, backup_dir, backups, webps>>
    /\ UNCHANGED <<uploader, discovery, compression, rewriter>>

\* main, lines 105-116, with create_backup_folder: an existing folder is
\* removed with all it holds when the answer is y, and main returns
\* otherwise
Cv_CreateBackupFolder ==
    /\ cv_pc = "backup_folder"
    /\ \E response \in {"y", "n"} :
         IF backup_dir /\ response # "y"
         THEN /\ cv_pc' = "returned"
              /\ UNCHANGED <<backup_dir, backups, webps, cv_i>>
         ELSE /\ backup_dir' = TRUE
              /\ backups' = IF backup_dir THEN {} ELSE backups
              /\ webps' = IF backup_dir THEN rmtree(webps) ELSE webps
              /\ cv_i' = 1
              /\ cv_pc' = "backup"
    /\ UNCHANGED <<cv_runs, first_images, originals, cv_files,
                   converted_count, failed_count>>
    /\ UNCHANGED <<uploader, discovery, compression, rewriter>>

\* lines 121-124 with backup_image: the copy, which raises (a file that is
\* gone, no space, no permission) into the except of lines 144-146
Cv_BackupImage ==
    /\ cv_pc = "backup"
    /\ LET p == cv_files[cv_i]
       IN  \E copied \in BOOLEAN :
             IF Exists(p) /\ copied
             THEN /\ backups' = backups \cup {backup_path(p)}
                  /\ cv_pc' = "convert"
                  /\ UNCHANGED <<cv_i, failed_count>>
             ELSE /\ failed_count' = failed_count + 1
                  /\ NextImage
                  /\ UNCHANGED backups
    /\ UNCHANGED <<cv_runs, first_images, originals, backup_dir, webps,
                   cv_files, converted_count>>
    /\ UNCHANGED <<uploader, discovery, compression, rewriter>>

\* lines 127-135 and 140-142 with convert_to_webp: the .webp is saved beside
\* the image, or the function returns None
Cv_ConvertToWebp ==
    /\ cv_pc = "convert"
    /\ LET p == cv_files[cv_i]
       IN  \E saved \in BOOLEAN :
             IF saved
             THEN /\ webps' = webps \cup {p}
                  /\ converted_count' = converted_count + 1
                  /\ cv_pc' = "unlink"
                  /\ UNCHANGED <<cv_i, failed_count>>
             ELSE /\ failed_count' = failed_count + 1
                  /\ NextImage
                  /\ UNCHANGED <<webps, converted_count>>
    /\ UNCHANGED <<cv_runs, first_images, originals, backup_dir, backups,
                   cv_files>>
    /\ UNCHANGED <<uploader, discovery, compression, rewriter>>

\* lines 138-139: image_path.unlink(), which raises (a read-only or open
\* file on Windows, a directory that forbids it) into the except of lines
\* 144-146
Cv_Unlink ==
    /\ cv_pc = "unlink"
    /\ LET p == cv_files[cv_i]
       IN  \E removed \in BOOLEAN :
             IF removed
             THEN /\ originals' = IF p.depth = 0 THEN originals \ {p.id}
                                  ELSE originals
                  /\ backups' = IF p.depth = 0 THEN backups
                                ELSE backups \ {p}
                  /\ UNCHANGED failed_count
             ELSE /\ failed_count' = failed_count + 1
                  /\ UNCHANGED <<originals, backups>>
    /\ NextImage
    /\ UNCHANGED <<cv_runs, first_images, backup_dir, webps, cv_files,
                   converted_count>>
    /\ UNCHANGED <<uploader, discovery, compression, rewriter>>

NextConverter ==
    \/ Cv_FindImages
    \/ Cv_CreateBackupFolder
    \/ Cv_BackupImage
    \/ Cv_ConvertToWebp
    \/ Cv_Unlink

SpecConverter == InitConverter /\ [][NextConverter]_vars

\* -------------------------------------------- the rewriter specification
\* convert_imgur_to_png on one file.  The text is a sequence of tokens:
\* "U" is https://i.imgur.com/, "W" is .webp, "P" is .png, ")" the closing
\* parenthesis, " " a space or line end, "x" any other characters.
Tokens == {"U", "x", "W", ")", " "}
Texts == UNION {[1..n -> Tokens] : n \in 0..MaxTextLen}

\* imgur_webp_pattern tried at pos: the prefix, [^)]+ taking as much as it
\* can, then .webp; the position of that .webp, or 0 for no match
MatchEnd(text, pos) ==
    LET ends == {j \in (pos + 2)..Len(text) :
                    /\ text[j] = "W"
                    /\ \A k \in (pos + 1)..(j - 1) : text[k] # ")"}
    IN  IF text[pos] = "U" /\ ends # {}
        THEN CHOOSE j \in ends : \A k \in ends : k <= j
        ELSE 0

\* the matches from pos on, left to right without overlap, as the
\* positions of their .webp
RECURSIVE Matches(_, _)
Matches(text, pos) ==
    IF pos > Len(text) THEN {}
    ELSE LET j == MatchEnd(text, pos)
         IN  IF j = 0 THEN Matches(text, pos + 1)
             ELSE {j} \cup Matches(text, j + 1)

\* re.findall(imgur_webp_pattern, content)
imgur_matches(text) == Matches(text, 1)

\* re.sub(imgur_webp_pattern, r'\1.png', content)
updated_content(text) ==
    [j \in 1..Len(text) |-> IF j \in imgur_matches(text) THEN "P" ELSE text[j]]

InitRewriter ==
    /\ content \in Texts
    /\ original_content = content
    /\ written = 0
    /\ rw_pc = "start"
    /\ dirs = {} /\ faults = 0 /\ run = 0
    /\ progress_file = NoFile /\ md_file = NoFile /\ json_file = NoFile
    /\ ProcessStart
    /\ DiscoveryIdle /\ CompressionIdle /\ ConverterIdle

\* convert_imgur_to_png(file_path), lines 11-49
convert_imgur_to_png ==
    /\ rw_pc = "start"
    /\ \E readable \in BOOLEAN :
         IF ~readable
         THEN /\ rw_pc' = "failed"
              /\ UNCHANGED <<content, written>>
         ELSE IF Cardinality(imgur_matches(content)) = 0
         THEN /\ rw_pc' = "done"
              /\ UNCHANGED <<content, written>>
         ELSE /\ content' = updated_content(content)
              /\ written' = written + 1
              /\ rw_pc' = "done"
    /\ UNCHANGED original_content
    /\ UNCHANGED <<uploader, discovery, compression, converter>>

NextRewriter == convert_imgur_to_png

SpecRewriter == InitRewriter /\ [][NextRewriter]_vars

\* ---------------------------------------------------------------- claims
\* a run of the script is in progress
Running == pc \notin {"idle", "crashed"}

\* the records load_progress gave this run, and those the run added
Loaded == SubSeq(upload_results, 1, start_index)
ThisRun == SubSeq(upload_results, start_index + 1, Len(upload_results))

AbsolutePaths(results) == {results[j].absolute_path : j \in 1..Len(results)}

\* the calls of session.post among the invocations cs
Posted(cs) == {j \in 1..Len(cs) : cs[j].posted}

\* C1: in a run, the files processed (remaining_files) are the discovered
\* files that are no absolute path of the loaded progress log, in discovery
\* order, and none of them is in the set of the files already processed.
C1_ResumeFilter ==
    Running =>
        /\ processed_files = AbsolutePaths(Loaded)
        /\ image_files = SortedSeq(Range(image_files))
        /\ remaining_files = SortedSeq(Range(image_files) \ AbsolutePaths(Loaded))
        /\ Range(remaining_files) \cap processed_files = {}

\* a resumed run whose log holds some of the discovered files and not all
C1_Witness ==
    /\ Running
    /\ start_index > 0
    /\ remaining_files # <<>>
    /\ Len(remaining_files) < Len(image_files)

\* C2 as stated: the already-processed set and the remaining set together
\* are exactly the discovered set, they do not overlap, and no two records
\* have the same absolute path.
C2_Original ==
    Running =>
        /\ processed_files \cup Range(remaining_files) = Range(image_files)
        /\ processed_files \cap Range(remaining_files) = {}
        /\ NoDuplicatePaths(upload_results)

\* C2 as amended: the remaining set and the already-processed paths that are
\* still discovered together are exactly the discovered set (the log may
\* hold paths that are no longer discovered; without such paths the union
\* is the discovered set), no overlap, no two records with the same path.
C2_Amended ==
    Running =>
        /\ Range(remaining_files) \cup (processed_files \cap Range(image_files))
             = Range(image_files)
        /\ (processed_files \subseteq Range(image_files) =>
              processed_files \cup Range(remaining_files) = Range(image_files))
        /\ processed_files \cap Range(remaining_files) = {}
        /\ NoDuplicatePaths(upload_results)

\* a resumed run whose log holds a path that is not discovered any more,
\* after it has added a record
C2_Witness ==
    /\ Running
    /\ ~(processed_files \subseteq Range(image_files))
    /\ Len(upload_results) > start_index
    /\ start_index > 0

\* the branches that retry: lines 191-221
RetryableResults == {"rate_limited", "http_error", "conn_error", "timeout"}

\* upload_image_to_imgur has returned to main
Returned == pc \in {"append", "batch"}

\* C3 as stated: for a file whose every attempt fails, the attempts made
\* number MAX_RETRIES, and None is returned.
C3_Original ==
    (/\ Returned
     /\ Posted(calls) # {}
     /\ \A j \in Posted(calls) : calls[j].outcome # "success")
    => /\ Cardinality(Posted(calls)) = MAX_RETRIES
       /\ imgur_url = None

\* C3 as amended: for a file whose every attempt ends with session.post
\* returning a status other than 200 or raising ConnectionError or Timeout,
\* the attempts made number MAX_RETRIES, None is returned and the record
\* of the file has a null imgur_url.
C3_Amended ==
    (/\ Returned
     /\ Posted(calls) # {}
     /\ \A j \in Posted(calls) : calls[j].outcome \in RetryableResults)
    => /\ Cardinality(Posted(calls)) = MAX_RETRIES
       /\ imgur_url = None
       /\ pc = "batch" =>
            upload_results[Len(upload_results)] = UploadRecord(image_path, None)

\* three failed attempts of the retried kinds, and the record appended
C3_Witness ==
    /\ pc = "batch"
    /\ Cardinality(Posted(calls)) = MAX_RETRIES
    /\ \A j \in Posted(calls) : calls[j].outcome \in RetryableResults
    /\ upload_results[Len(upload_results)].imgur_url = None

\* the answers the claim calls rate-limited or transient: the statuses other
\* than 200, and no answer
RetriedAnswers == {"429", "500", "403", "none"}

\* C4: after a request that ended rate-limited (429) or with a transient
\* failure, with attempts left, the client ID is rotated to the next one
\* and the upload is retried: the next request for the file carries the
\* client ID after the one of the failed request, and the function does not
\* give up on the file before MAX_RETRIES attempts.
C4_Original ==
    /\ (pc = "wire" /\ wire_prev.status \in RetriedAnswers)
         => header_cred = rotate_client_id(wire_prev.cred)
    /\ (Returned /\ wire_prev.status \in RetriedAnswers)
         => Cardinality(Posted(calls)) >= MAX_RETRIES

\* the branches a malformed 200 ends in: success false (lines 188-190) and
\* the last except clause (lines 222-225)
MalformedResults == {"api_failure", "unexpected"}

\* C5: an oversized payload and a malformed response (a 200 whose body does
\* not parse, lacks the fields or says success false) end the file: None is
\* returned and no further attempt is made for it.
C5_Terminal ==
    /\ (Running /\ payload = "oversized") =>
          /\ pc \notin {"post", "wire"}
          /\ Posted(calls) = {}
          /\ Returned => (imgur_url = None /\ Len(calls) = 1)
    /\ \A j \in 1..Len(calls) :
          calls[j].outcome \in MalformedResults \cup {"oversized"} =>
              /\ j = Len(calls)
              /\ Returned
              /\ imgur_url = None

\* a malformed response to a retry: the file ends with attempts left
C5_Witness ==
    /\ pc = "append"
    /\ Len(calls) = 2
    /\ calls[1].outcome = "http_error"
    /\ calls[2].outcome \in MalformedResults
    /\ wire_prev.status = "200"


\* C6: no failure of a file aborts the run: the process never dies of an
\* exception, every file of remaining_files, in order, gets exactly one
\* record, with a null imgur_url when no attempt succeeded, and the loop
\* ends only with the list exhausted.
C6_NoAbort ==
    /\ pc # "crashed"
    /\ Running =>
         /\ Len(ThisRun) = i + (IF pc = "batch" THEN 1 ELSE 0)
         /\ Len(ThisRun) <= Len(remaining_files)
         /\ \A j \in 1..Len(ThisRun) :
                ThisRun[j].absolute_path = remaining_files[j]
    /\ pc \in {"report", "json", "cleanup"} =>
         Len(ThisRun) = Len(remaining_files)
    /\ pc = "batch" =>
         /\ ThisRun[Len(ThisRun)] = UploadRecord(image_path, imgur_url)
         /\ (imgur_url = None) <=>
              (\A j \in 1..Len(calls) : calls[j].outcome # "success")

\* a run whose first file failed and whose second file was uploaded
C6_Witness ==
    /\ pc = "report"
    /\ Len(ThisRun) >= 2
    /\ ThisRun[1].imgur_url = None
    /\ ThisRun[2].imgur_url # None

\* C7: an interruption of the loop after k of the n remaining files leaves
\* a progress file with exactly the records loaded at the start and those
\* of the k files, writes no report and no final JSON, and a restart on
\* the unchanged directory processes exactly the other n - k files.
C7_Interrupt ==
    /\ (pc = "idle" /\ run_end = "interrupted") =>
         /\ progress_file.exists
         /\ json_load(progress_file.text) = prev.results
         /\ Len(prev.results) = prev.start + prev.done
         /\ prev.done <= Len(prev.remaining)
         /\ \A j \in 1..prev.done :
                prev.results[prev.start + j].absolute_path = prev.remaining[j]
         /\ md_file = NoFile
         /\ json_file = NoFile
         /\ Range(fs_log) \subseteq {"save"}
    /\ (Running /\ prev.end = "interrupted" /\ image_files = prev.dir) =>
         /\ remaining_files =
              SubSeq(prev.remaining, prev.done + 1, Len(prev.remaining))
         /\ pc = "report" =>
              [j \in 1..Len(ThisRun) |-> ThisRun[j].absolute_path] = remaining_files

\* interrupted after 2 of at least 5 files, restarted on the same directory
\* and through with the others
C7_Witness ==
    /\ pc = "report"
    /\ prev.end = "interrupted"
    /\ prev.done = 2
    /\ Len(prev.remaining) >= 5
    /\ image_files = prev.dir
    /\ Len(ThisRun) = Len(prev.remaining) - 2

\* C8: after every 10 uploads of the run, and on interruption, the progress
\* file holds the whole record sequence in memory, loaded records first,
\* and nothing else.
C8_Snapshot ==
    /\ (pc = "loop" /\ i > 0 /\ i % SAVE_EVERY = 0) =>
         /\ progress_file = [exists |-> TRUE, text |-> json_dump(upload_results)]
         /\ Len(upload_results) = start_index + i
    /\ (pc = "idle" /\ run_end = "interrupted") =>
         progress_file = [exists |-> TRUE, text |-> json_dump(prev.results)]

\* the tenth upload of a resumed run
C8_Witness ==
    /\ pc = "loop"
    /\ i = SAVE_EVERY
    /\ start_index > 0

\* every a of the log comes before every b
Before(log, a, b) ==
    \A j, k \in 1..Len(log) : (log[j] = a /\ log[k] = b) => j < k

\* C9 as stated: when a run ends without an interruption no progress file
\* exists, and a deletion comes after the report and the final JSON.
C9_Original ==
    (pc = "idle" /\ run_end \in {"completed", "empty"}) =>
        /\ ~progress_file.exists
        /\ "rm" \in Range(fs_log) =>
             /\ Before(fs_log, "md", "rm")
             /\ Before(fs_log, "json", "rm")

\* C9 as amended: when a run that found at least one image ends without an
\* interruption, no progress file exists, and the report and the final JSON
\* were written before the deletion; a run that finds no image writes
\* nothing and deletes nothing.
C9_Amended ==
    /\ (pc = "idle" /\ run_end = "completed") =>
         /\ ~progress_file.exists
         /\ md_file.exists
         /\ json_file.exists
         /\ {"md", "json"} \subseteq Range(fs_log)
         /\ Before(fs_log, "md", "json")
         /\ Before(fs_log, "md", "rm")
         /\ Before(fs_log, "json", "rm")
    /\ (pc = "idle" /\ run_end = "empty") =>
         /\ fs_log = <<>>
         /\ md_file = NoFile
         /\ json_file = NoFile

\* a run that completed and deleted a progress file
C9_Witness ==
    /\ pc = "idle"
    /\ run_end = "completed"
    /\ "rm" \in Range(fs_log)

\* main is in upload_image_to_imgur, or back from it with the record to add
Uploading == pc \in {"enter", "post", "wire", "append"}

\* C10 as stated: a record is created once per image file, and a file whose
\* record has a null URL is not uploaded again by a later run.
C10_Original ==
    Uploading => image_path \notin prev.failed

C10_Inv ==
    /\ Running => NoDuplicatePaths(upload_results)
    /\ Uploading => image_path \notin AbsolutePaths(upload_results)
    /\ (Running /\ prev.end = "interrupted") => Loaded = prev.results
    /\ (Running /\ prev.end # "interrupted") => Loaded = <<>>

C10_Step ==
    (Running /\ Running') =>
        \/ upload_results' = upload_results
        \/ /\ pc = "append"
           /\ Len(upload_results') = Len(upload_results) + 1
           /\ SubSeq(upload_results', 1, Len(upload_results)) = upload_results
           /\ upload_results'[Len(upload_results')].absolute_path = image_path

\* C10 as amended: within a run, and from an interrupted run to the run that
\* resumes from its progress log, a record is created once per image file,
\* at the end of the sequence, and never changed: the sequence only grows
\* by appends, the records of the interrupted run are loaded as they were,
\* null URLs included, and no file with a record is uploaded again.  After
\* a run that completed, a later run starts a new sequence.
C10_Amended == [][C10_Inv' /\ C10_Step]_vars

\* a resumed run, its first loaded record a failure, adding a record
C10_Witness ==
    /\ pc = "batch"
    /\ start_index > 0
    /\ upload_results[1].imgur_url = None

\* C14: every request sent to the endpoint, first attempt and retries alike,
\* is immediately preceded by the randomized delay of lines 178-179: no
\* request is in flight that was not sent right after that delay.
C14_Original ==
    pc = "wire" => delayed

\* the invocations of upload_image_to_imgur open for image_path
OpenFrames == IF pc \in {"enter", "post", "wire"} THEN retry_count + 1 ELSE 0

\* C18: for every sequence of attempt outcomes, retry_count never exceeds
\* MAX_RETRIES, the recursion is at most MAX_RETRIES + 1 deep, and the
\* function issues at most MAX_RETRIES requests (calls of session.post) for
\* one file.
C18_Bounded ==
    /\ retry_count <= MAX_RETRIES
    /\ OpenFrames <= MAX_RETRIES + 1
    /\ Len(calls) <= MAX_RETRIES + 1
    /\ pc \in {"enter", "post", "wire"} => Len(calls) = retry_count
    /\ Cardinality(Posted(calls)) <= MAX_RETRIES
    /\ Cardinality(Posted(calls)) + (IF pc \in {"post", "wire"} THEN 1 ELSE 0)
         <= MAX_RETRIES

\* the deepest recursion the handlers allow, with its request in flight
C18_Witness ==
    /\ pc = "wire"
    /\ retry_count = MAX_RETRIES - 1
    /\ Cardinality(Posted(calls)) = MAX_RETRIES - 1

\* the ways an invocation ends that leave the client ID alone: a successful
\* upload, the 20 MB rejection, the return of lines 151-153
NonRotating == {"success", "oversized", "max_retries"}

\* rotate_client_id is the round robin over the pool, the last client ID
\* followed by the first
RoundRobin ==
    \A idx \in 0..(NumClientIds - 1) :
        /\ rotate_client_id(idx) \in 0..(NumClientIds - 1)
        /\ idx < NumClientIds - 1 => rotate_client_id(idx) = idx + 1
        /\ idx = NumClientIds - 1 => rotate_client_id(idx) = 0

C19_Step ==
    /\ RoundRobin
    /\ current_client_id_index' \in 0..(NumClientIds - 1)
    /\ IF pc' = "idle" \/ pc = "idle"
       THEN current_client_id_index' = 0
       ELSE IF Len(calls') = Len(calls) + 1
       THEN current_client_id_index' =
              IF calls'[Len(calls')].outcome \in NonRotating
              THEN current_client_id_index
              ELSE (current_client_id_index + 1) % NumClientIds
       ELSE current_client_id_index' = current_client_id_index

\* C19: the client ID index stays within 0 .. len(CLIENT_IDS) - 1; an
\* invocation that ends with a successful upload, the oversized rejection or
\* the max-retries return leaves it unchanged, an invocation that ends in any
\* other failure advances it by exactly one modulo the pool size, and no
\* other step of a run changes it: it carries over from file to file.
C19_Frame == [][C19_Step]_vars

\* a file begun with the index a failure of the file before left
C19_Witness ==
    /\ pc = "enter"
    /\ i > 0
    /\ calls = <<>>
    /\ current_client_id_index > 0
    /\ upload_results[Len(upload_results)].imgur_url = None

\* the records of the progress file
Saved == json_load(progress_file.text)

ListedEntries(doc) ==
    {<<k, j>> : k \in 1..Len(doc.sections), j \in 1..MaxReportFiles} \cap
    {e \in (1..Len(doc.sections)) \X (1..MaxReportFiles) :
        e[2] <= Len(doc.sections[e[1]].entries)}

EntryAt(doc, e) == doc.sections[e[1]].entries[e[2]]

\* C15: in the report of a record sequence, each record appears exactly once
\* in the listing by directory (one section per directory, entries sorted by
\* filename), every record with a null URL is listed with its original path
\* in the Failed Uploads section, the failed count of the header equals the
\* number of entries marked as failed, and the final JSON holds the same
\* records.
C15_Original ==
    (Running /\ md_file.exists) =>
        /\ \A j \in 1..Len(upload_results) :
              Cardinality({e \in ListedEntries(md_file) :
                  /\ EntryAt(md_file, e).original_path = upload_results[j].original_path
                  /\ EntryAt(md_file, e).imgur_url = upload_results[j].imgur_url}) = 1
        /\ Cardinality(ListedEntries(md_file)) = Len(upload_results)
        /\ \A k \in 1..Len(md_file.sections) :
              LET sec == md_file.sections[k]
              IN  /\ \A j \in 1..Len(sec.entries) :
                        dirname(sec.entries[j].original_path) = sec.directory
                  /\ \A j \in 1..(Len(sec.entries) - 1) :
                        sec.entries[j].filename <= sec.entries[j + 1].filename
                  /\ \A l \in 1..Len(md_file.sections) :
                        md_file.sections[l].directory = sec.directory => l = k
        /\ Range(md_file.failed_section) =
              {upload_results[j].original_path :
                  j \in {l \in 1..Len(upload_results) : upload_results[l].imgur_url = None}}
        /\ md_file.failed =
              Cardinality({e \in ListedEntries(md_file) : EntryAt(md_file, e).failed_mark})
        /\ json_file.exists => json_load(json_file.text) = upload_results

\* the allow-list of the improved uploader
AllowList == Range(image_extensions)

\* C11: get_all_image_files returns a sequence without duplicates, in
\* ascending order, of exactly the files under the root whose extension,
\* compared without regard to case, is in the allow-list, and a second call
\* on the unchanged directory returns the same sequence.
C11_Original ==
    \A k \in 1..Len(listing) :
        /\ \A j, l \in 1..Len(listing[k]) : j < l => listing[k][j] < listing[k][l]
        /\ Range(listing[k]) =
             {e \in tree : ~Names[e].isdir /\ lower(Names[e].suffix) \in AllowList}
        /\ listing[k] = listing[1]

\* the file is within the thresholds of lines 54-55
WithinThresholds ==
    /\ img.file_size <= MAX_FILE_SIZE
    /\ Max(img.width, img.height) <= MAX_DIMENSION

Compressed == result.data \in {"original", "jpeg"}

C12_Step ==
    /\ img' = img
    /\ (Compressed' /\ WithinThresholds) =>
          /\ result'.data = "original"
          /\ result'.size = img.file_size
          /\ result'.width = img.width /\ result'.height = img.height

\* C12: for a file of at most MAX_FILE_SIZE bytes whose longer dimension is
\* at most MAX_DIMENSION, compress_image_if_needed returns the file's bytes
\* unchanged together with their length, and the file is not written.
C12_NoOp == [][C12_Step]_vars

\* a file exactly on both thresholds, returned as it is
C12_Witness ==
    /\ Compressed
    /\ img.decodes
    /\ img.file_size = MAX_FILE_SIZE
    /\ Max(img.width, img.height) = MAX_DIMENSION
    /\ result.data = "original"

\* C13: for a file above the size threshold or the dimension maximum, the
\* output of compress_image_if_needed has a longer dimension of at most
\* MAX_DIMENSION, and its size is measured against the 20 MB limit before
\* the payload is accepted.
C13_Original ==
    (Compressed /\ ~WithinThresholds) =>
        /\ Max(result.width, result.height) <= MAX_DIMENSION
        /\ result.verdict = "accepted" => result.size <= UPLOAD_LIMIT

\* the originals that are gone from the directory
DeletedOriginals == first_images \ originals

\* C16: an original image is deleted only if a backup copy of it exists in
\* the backup folder and its WebP conversion succeeded, and at the end of
\* main converted_count + failed_count is the number of images found.
C16_Original ==
    /\ \A k \in DeletedOriginals :
          /\ \E b \in backups : b.id = k
          /\ Original(k) \in webps
    /\ cv_pc = "done" => converted_count + failed_count = Len(cv_files)

\* the characters a URL goes on with
UrlToken(t) == t \in {"U", "x", "W", "P"}

\* the .webp at j ends a URL of i.imgur.com
ImgurWebp(text, j) ==
    /\ text[j] = "W"
    /\ j < Len(text) => ~UrlToken(text[j + 1])
    /\ \E k \in 1..(j - 2) :
          /\ text[k] = "U"
          /\ \A m \in (k + 1)..(j - 1) : UrlToken(text[m])

\* C17: each i.imgur.com URL ending in .webp becomes the same URL ending in
\* .png, every other part of the text is unchanged, and a file without an
\* Imgur .webp reference is not rewritten.
C17_Original ==
    rw_pc = "done" =>
        /\ Len(content) = Len(original_content)
        /\ \A j \in 1..Len(original_content) :
              content[j] = IF ImgurWebp(original_content, j) THEN "P"
                           ELSE original_content[j]
        /\ (\A j \in 1..Len(original_content) :
                ~ImgurWebp(original_content, j)) => written = 0

\* the progress file cannot be read back as a record list
Unreadable(file) == ~file.exists \/ ~Parses(file.text)

C21_Step ==
    \* a finished save_progress, read back
    /\ fs_log' = Append(fs_log, "save") =>
          /\ ~Unreadable(progress_file')
          /\ load_progress(progress_file') = upload_results
    \* main past load_progress
    /\ (pc = "idle" /\ run' = run + 1 /\ image_files' # <<>>) =>
          /\ pc' = "loop"
          /\ Unreadable(progress_file) =>
                /\ upload_results' = <<>>
                /\ remaining_files' = image_files'

\* C21: save_progress followed by load_progress gives the same record
\* sequence, null URLs included; load_progress returns the empty list for a
\* missing or unparsable progress file, the run then takes every discovered
\* file as unprocessed, and its next save overwrites the unreadable file.
C21_RoundTrip == [][C21_Step]_vars

\* a run that started from a progress file cut short after its first
\* record, found every file unprocessed, and has uploaded one
C21_Witness ==
    /\ pc = "loop"
    /\ prev.end = "killed"
    /\ progress_file.exists /\ ~Parses(progress_file.text)
    /\ Len(progress_file.text) > 1
    /\ start_index = 0
    /\ remaining_files = image_files
    /\ Len(upload_results) = 1

====
